---- MODULE Spec2Model ----
(***************************************************************************)
(* A model of gotag (github.com/boxtown/gotag): the TestContext policy of  *)
(* src/lib.go (skip-set, run-only-set, fuzzy matching by Levenshtein       *)
(* distance), its constructors, its registration calls and the execution   *)
(* wrapper Test/Benchmark.                                                 *)
(*                                                                         *)
(* A Go string is a sequence of one-character strings (its bytes); a Go    *)
(* slice is a sequence read at the Go index plus one.  The two maps of a   *)
(* TestContext only ever store the value true, so each is the set of its   *)
(* keys: m[k] is k \in m, len(m) is Cardinality(m).                        *)
(***************************************************************************)
EXTENDS Integers, Sequences, FiniteSets, TLC

VARIABLES
    tc,           \* the TestContext: skip, runOnly, Verbose, EditDistance, Fuzzy
    origin,       \* which constructor built tc
    distanceSet,  \* has the threshold been given explicitly (config field or Distance)
    last,         \* what the most recent call did
    calls,        \* completed Test/Benchmark calls
    skipped,      \* SkipNow calls received by the handles (mockT.skipped)
    ran,          \* test/benchmark bodies run
    panicked,     \* has any call ended in a Go runtime panic
    levIn,        \* inputs of the latest direct levenshtein call
    levOut,       \* its result
    fs,           \* the config files on disk: path -> content
    cli,          \* the command-line program: the -skip value given, the variable skips, its position
    procs         \* the goroutines calling Test / Benchmark: each one's position and locals

vars == <<tc, origin, distanceSet, last, calls, skipped, ran, panicked, levIn, levOut, fs, cli, procs>>

----------------------------------------------------------------------------
(* Bounds of the model *)

MaxLen == 3      \* longest string of the exhaustive levenshtein inputs
MaxArgs == 2     \* longest argument list of Skip / RunOnly / a config list
MaxCalls == 3    \* Test/Benchmark calls counted
MaxDist == 2     \* largest threshold passed to Distance
MaxFileTags == 1 \* longest skip / run list of a config file on disk
MaxFlagLen == 4  \* longest value given to the -skip flag

Alphabet == {"a", "b"}

tagA == <<"t", "a", "g", "A">>
taga == <<"t", "a", "g", "a">>
tagB == <<"t", "a", "g", "B">>
ta == <<"t", "a">>
zzzzz == <<"z", "z", "z", "z", "z">>
emptyTag == <<>>
kitten == <<"k", "i", "t", "t", "e", "n">>
sitting == <<"s", "i", "t", "t", "i", "n", "g">>
abc == <<"a", "b", "c">>

\* tags given to Skip / RunOnly / a config file, and tags given to Test / Benchmark
RegTags == {tagA, emptyTag}
QueryTags == RegTags \cup {taga, tagB, ta, zzzzz}
DistValues == (0 - 1)..MaxDist

RECURSIVE SeqsUpTo(_, _)
SeqsUpTo(S, n) ==
    IF n = 0 THEN {<<>>}
    ELSE LET shorter == SeqsUpTo(S, n - 1)
         IN shorter \cup {Append(s, x) : s \in shorter, x \in S}

ArgLists == SeqsUpTo(RegTags, MaxArgs)
LevStrings == SeqsUpTo(Alphabet, MaxLen)

----------------------------------------------------------------------------
(* skipReason, src/lib.go:426-434 *)

doNotSkip == "doNotSkip"
doNotSkipFuzzy == "doNotSkipFuzzy"
foundInSkip == "foundInSkip"
fuzzyMatchSkip == "fuzzyMatchSkip"
notInRunOnly == "notInRunOnly"
skipReason == {doNotSkip, doNotSkipFuzzy, foundInSkip, fuzzyMatchSkip, notInRunOnly}

----------------------------------------------------------------------------
(* levenshtein and min, src/lib.go:317-364.  A result is [ret, panic]:     *)
(* panic is TRUE when the run indexed a string or slice out of range.      *)

InRange(s, i) == i >= 0 /\ i < Len(s)

RECURSIVE minFrom(_, _, _)
minFrom(vals, i, m) ==
    IF ~(i < Len(vals)) THEN m
    ELSE minFrom(vals, i + 1, IF vals[i + 1] < m THEN vals[i + 1] ELSE m)

\* min that forgets its loop: the first value
minFirst(vals) == IF Len(vals) = 0 THEN 0 ELSE vals[1]

min(vals) == IF Len(vals) = 0 THEN 0 ELSE minFrom(vals, 1, vals[1])

\* the loop "for j := 0; j < n2; j++" of one row, from j on
RECURSIVE levInner(_, _, _, _, _)
levInner(s1, s2, i, j, st) ==
    IF st.panic \/ ~(j < Len(s2)) THEN st
    ELSE IF ~(InRange(s1, i) /\ InRange(s2, j) /\ InRange(st.v1, j + 1)
              /\ InRange(st.v0, j + 1))
    THEN [st EXCEPT !.panic = TRUE]
    ELSE LET cell == IF s1[i + 1] = s2[j + 1]
                     THEN min(<<st.v1[j + 1] + 1, st.v0[j + 2] + 1, st.v0[j + 1]>>)
                     ELSE min(<<st.v1[j + 1] + 1, st.v0[j + 2] + 1, st.v0[j + 1] + 1>>)
         IN levInner(s1, s2, i, j + 1, [st EXCEPT !.v1[j + 2] = cell])

\* the outer loop run once too often: "i <= n1"
RECURSIVE levOuterOffByOne(_, _, _, _)
levOuterOffByOne(s1, s2, i, st) ==
    IF st.panic \/ ~(i <= Len(s1)) THEN st
    ELSE LET row == levInner(s1, s2, i, 0, [st EXCEPT !.v1[1] = i + 1])
         IN levOuterOffByOne(s1, s2, i + 1, [row EXCEPT !.v0 = row.v1])

\* the loop "for i := 0; i < n1; i++", from i on
RECURSIVE levOuter(_, _, _, _)
levOuter(s1, s2, i, st) ==
    IF st.panic \/ ~(i < Len(s1)) THEN st
    ELSE LET row == levInner(s1, s2, i, 0, [st EXCEPT !.v1[1] = i + 1])
         IN levOuter(s1, s2, i + 1, [row EXCEPT !.v0 = row.v1])

levenshtein(s1, s2) ==
    IF s1 = s2 THEN [ret |-> 0, panic |-> FALSE]
    ELSE IF Len(s1) = 0 THEN [ret |-> Len(s2), panic |-> FALSE]
    ELSE IF Len(s2) = 0 THEN [ret |-> Len(s1), panic |-> FALSE]
    ELSE LET n2 == Len(s2)
             fin == levOuter(s1, s2, 0,
                             [v0 |-> [k \in 1..(n2 + 1) |-> k - 1],
                              v1 |-> [k \in 1..(n2 + 1) |-> 0],
                              panic |-> FALSE])
         IN [ret |-> IF fin.panic THEN 0 ELSE fin.v1[n2 + 1], panic |-> fin.panic]

----------------------------------------------------------------------------
(* Constructors, src/lib.go:101-108, 378-394, 436-440 *)

New ==
    [skip |-> {}, runOnly |-> {}, Verbose |-> FALSE, EditDistance |-> 2,
     Fuzzy |-> FALSE]

RECURSIVE toMapFrom(_, _, _)
toMapFrom(s, i, m) ==
    IF ~(i < Len(s)) THEN m ELSE toMapFrom(s, i + 1, m \cup {s[i + 1]})

toMap(s) == toMapFrom(s, 0, {})

\* loadJSONConfig / loadYAMLConfig decode into "var config Config": a field the
\* file does not give keeps Go's zero value.  A file is [skip, run, fuzzy,
\* distance], distance being <<>> (not given) or <<d>>.
decodeConfig(file) ==
    [Skip |-> file.skip, Run |-> file.run, Fuzzy |-> file.fuzzy,
     EditDistance |-> IF file.distance = <<>> THEN 0 ELSE file.distance[1]]

fromConfig(config) ==
    [skip |-> toMap(config.Skip), runOnly |-> toMap(config.Run),
     Verbose |-> FALSE, EditDistance |-> config.EditDistance,
     Fuzzy |-> config.Fuzzy]

----------------------------------------------------------------------------
(* Skip and RunOnly, src/lib.go:163-178: the loop over the variadic tags *)

\* Skip that flips the entry instead of setting it
RECURSIVE SkipFromToggle(_, _, _)
SkipFromToggle(m, tags, i) ==
    IF ~(i < Len(tags)) THEN m
    ELSE SkipFromToggle(IF tags[i + 1] \in m THEN m \ {tags[i + 1]}
                        ELSE m \cup {tags[i + 1]}, tags, i + 1)

RECURSIVE SkipFrom(_, _, _)
SkipFrom(m, tags, i) ==
    IF ~(i < Len(tags)) THEN m ELSE SkipFrom(m \cup {tags[i + 1]}, tags, i + 1)

\* Skip that also puts the context back into skip-set mode
SkipTagsClearing(c, tags) ==
    [c EXCEPT !.skip = c.skip \cup {tags[i] : i \in 1..Len(tags)}, !.runOnly = {}]

SkipTags(c, tags) == [c EXCEPT !.skip = SkipFrom(c.skip, tags, 0)]

\* RunOnly that starts from a fresh map, forgetting the earlier registrations
RECURSIVE RunOnlyFromFresh(_, _, _)
RunOnlyFromFresh(m, tags, i) ==
    IF ~(i < Len(tags)) THEN m
    ELSE RunOnlyFromFresh((IF i = 0 THEN {} ELSE m) \cup {tags[i + 1]}, tags, i + 1)

RECURSIVE RunOnlyFrom(_, _, _)
RunOnlyFrom(m, tags, i) ==
    IF ~(i < Len(tags)) THEN m ELSE RunOnlyFrom(m \cup {tags[i + 1]}, tags, i + 1)

RunOnlyTags(c, tags) == [c EXCEPT !.runOnly = RunOnlyFrom(c.runOnly, tags, 0)]

----------------------------------------------------------------------------
(* checkFuzzy, src/lib.go:262-270.  "for k := range collection" visits the *)
(* keys in an order Go leaves unspecified: every order is an outcome.      *)

Orders(S) ==
    {o \in [1..Cardinality(S) -> S] :
        \A i, j \in 1..Cardinality(S) : o[i] = o[j] => i = j}

\* levenshtein(k, tag) for every registered key k and queried tag, tabulated
LevMemo == [k \in RegTags, t \in QueryTags |-> levenshtein(k, t)]

\* checkFuzzy with ">=" for ">": a distance equal to the threshold is no match
RECURSIVE checkFuzzyFromStrict(_, _, _, _)
checkFuzzyFromStrict(c, tag, order, i) ==
    IF ~(i < Len(order))
    THEN [match |-> <<>>, found |-> FALSE, panic |-> FALSE]
    ELSE LET k == order[i + 1]
             d == LevMemo[k, tag]
         IN IF d.panic THEN [match |-> <<>>, found |-> FALSE, panic |-> TRUE]
            ELSE IF d.ret >= c.EditDistance
            THEN checkFuzzyFromStrict(c, tag, order, i + 1)
            ELSE [match |-> k, found |-> TRUE, panic |-> FALSE]

\* checkFuzzy that reports the queried tag instead of the entry it matched
RECURSIVE checkFuzzyFromEcho(_, _, _, _)
checkFuzzyFromEcho(c, tag, order, i) ==
    IF ~(i < Len(order))
    THEN [match |-> <<>>, found |-> FALSE, panic |-> FALSE]
    ELSE LET k == order[i + 1]
             d == LevMemo[k, tag]
         IN IF d.panic THEN [match |-> <<>>, found |-> FALSE, panic |-> TRUE]
            ELSE IF d.ret > c.EditDistance
            THEN checkFuzzyFromEcho(c, tag, order, i + 1)
            ELSE [match |-> tag, found |-> TRUE, panic |-> FALSE]

\* checkFuzzy that lets a match be one edit beyond the threshold
RECURSIVE checkFuzzyFromLoose(_, _, _, _)
checkFuzzyFromLoose(c, tag, order, i) ==
    IF ~(i < Len(order))
    THEN [match |-> <<>>, found |-> FALSE, panic |-> FALSE]
    ELSE LET k == order[i + 1]
             d == LevMemo[k, tag]
         IN IF d.panic THEN [match |-> <<>>, found |-> FALSE, panic |-> TRUE]
            ELSE IF d.ret - 1 > c.EditDistance
            THEN checkFuzzyFromLoose(c, tag, order, i + 1)
            ELSE [match |-> k, found |-> TRUE, panic |-> FALSE]

RECURSIVE checkFuzzyFrom(_, _, _, _)
checkFuzzyFrom(c, tag, order, i) ==
    IF ~(i < Len(order))
    THEN [match |-> <<>>, found |-> FALSE, panic |-> FALSE]
    ELSE LET k == order[i + 1]
             d == LevMemo[k, tag]
         IN IF d.panic THEN [match |-> <<>>, found |-> FALSE, panic |-> TRUE]
            ELSE IF d.ret > c.EditDistance THEN checkFuzzyFrom(c, tag, order, i + 1)
            ELSE [match |-> k, found |-> TRUE, panic |-> FALSE]

\* checkFuzzy that returns from inside the loop: only the first key is looked at
checkFuzzyFirstOnly(c, tag, collection) ==
    {IF Len(o) = 0 THEN [match |-> <<>>, found |-> FALSE, panic |-> FALSE]
     ELSE IF LevMemo[o[1], tag].ret > c.EditDistance
     THEN [match |-> <<>>, found |-> FALSE, panic |-> FALSE]
     ELSE [match |-> o[1], found |-> TRUE, panic |-> FALSE] : o \in Orders(collection)}

checkFuzzy(c, tag, collection) ==
    {checkFuzzyFrom(c, tag, o, 0) : o \in Orders(collection)}

----------------------------------------------------------------------------
(* shouldSkip, src/lib.go:230-260: the set of its possible returns         *)
(* [match, reason, panic], one per iteration order of checkFuzzy.          *)

Ret(match, reason) == [match |-> match, reason |-> reason, panic |-> FALSE]
Unwound == [match |-> <<>>, reason |-> doNotSkip, panic |-> TRUE]

\* shouldSkip that looks the tag up in the skip map before the run-only map
shouldSkipSkipFirst(c, tag) ==
    IF tag \in c.skip THEN {Ret(<<>>, foundInSkip)}
    ELSE IF Cardinality(c.runOnly) > 0
    THEN IF tag \in c.runOnly THEN {Ret(<<>>, doNotSkip)}
         ELSE IF ~c.Fuzzy THEN {Ret(<<>>, notInRunOnly)}
         ELSE {IF f.panic THEN Unwound
               ELSE IF ~f.found THEN Ret(<<>>, notInRunOnly)
               ELSE Ret(f.match, doNotSkipFuzzy) : f \in checkFuzzy(c, tag, c.runOnly)}
    ELSE IF ~c.Fuzzy THEN {Ret(<<>>, doNotSkip)}
         ELSE {IF f.panic THEN Unwound
               ELSE IF ~f.found THEN Ret(<<>>, doNotSkip)
               ELSE Ret(f.match, fuzzyMatchSkip) : f \in checkFuzzy(c, tag, c.skip)}

\* shouldSkip that matches the skip map fuzzily whatever Fuzzy says
shouldSkipAlwaysFuzzy(c, tag) ==
    IF Cardinality(c.runOnly) > 0
    THEN IF tag \in c.runOnly THEN {Ret(<<>>, doNotSkip)}
         ELSE IF ~c.Fuzzy THEN {Ret(<<>>, notInRunOnly)}
         ELSE {IF f.panic THEN Unwound
               ELSE IF ~f.found THEN Ret(<<>>, notInRunOnly)
               ELSE Ret(f.match, doNotSkipFuzzy) : f \in checkFuzzy(c, tag, c.runOnly)}
    ELSE IF tag \in c.skip THEN {Ret(<<>>, foundInSkip)}
         ELSE {IF f.panic THEN Unwound
               ELSE IF ~f.found THEN Ret(<<>>, doNotSkip)
               ELSE Ret(f.match, fuzzyMatchSkip) : f \in checkFuzzy(c, tag, c.skip)}

shouldSkip(c, tag) ==
    IF Cardinality(c.runOnly) > 0
    THEN IF tag \in c.runOnly THEN {Ret(<<>>, doNotSkip)}
         ELSE IF ~c.Fuzzy THEN {Ret(<<>>, notInRunOnly)}
         ELSE {IF f.panic THEN Unwound
               ELSE IF ~f.found THEN Ret(<<>>, notInRunOnly)
               ELSE Ret(f.match, doNotSkipFuzzy) : f \in checkFuzzy(c, tag, c.runOnly)}
    ELSE IF tag \in c.skip THEN {Ret(<<>>, foundInSkip)}
         ELSE IF ~c.Fuzzy THEN {Ret(<<>>, doNotSkip)}
         ELSE {IF f.panic THEN Unwound
               ELSE IF ~f.found THEN Ret(<<>>, doNotSkip)
               ELSE Ret(f.match, fuzzyMatchSkip) : f \in checkFuzzy(c, tag, c.skip)}

----------------------------------------------------------------------------
(* run, src/lib.go:206-228: what one call does to its handle s and its     *)
(* body fn, given shouldSkip's return r.  skipNowOn and bodyArg are the    *)
(* sequences of handles SkipNow was called on / fn was called with.        *)

\* run without "notInRunOnly" in its first case: that reason runs the body
runSwitchNoRunOnly(c, tag, s, r) ==
    IF r.panic
    THEN [skipNowOn |-> <<>>, bodyArg |-> <<>>, printed |-> "none"]
    ELSE IF r.reason \in {foundInSkip}
    THEN [skipNowOn |-> <<s>>, bodyArg |-> <<>>, printed |-> "none"]
    ELSE IF r.reason = fuzzyMatchSkip
    THEN [skipNowOn |-> <<s>>, bodyArg |-> <<>>,
          printed |-> IF c.Verbose THEN "skipping" ELSE "none"]
    ELSE IF r.reason = doNotSkipFuzzy
    THEN [skipNowOn |-> <<>>, bodyArg |-> <<s>>,
          printed |-> IF c.Verbose THEN "running" ELSE "none"]
    ELSE [skipNowOn |-> <<>>, bodyArg |-> <<s>>, printed |-> "none"]

\* run that goes on to the body after SkipNow returns
runSwitchFallthrough(c, tag, s, r) ==
    IF r.panic
    THEN [skipNowOn |-> <<>>, bodyArg |-> <<>>, printed |-> "none"]
    ELSE IF r.reason \in {foundInSkip, notInRunOnly}
    THEN [skipNowOn |-> <<s>>, bodyArg |-> <<s>>, printed |-> "none"]
    ELSE IF r.reason = fuzzyMatchSkip
    THEN [skipNowOn |-> <<s>>, bodyArg |-> <<s>>,
          printed |-> IF c.Verbose THEN "skipping" ELSE "none"]
    ELSE IF r.reason = doNotSkipFuzzy
    THEN [skipNowOn |-> <<>>, bodyArg |-> <<s>>,
          printed |-> IF c.Verbose THEN "running" ELSE "none"]
    ELSE [skipNowOn |-> <<>>, bodyArg |-> <<s>>, printed |-> "none"]

runSwitch(c, tag, s, r) ==
    IF r.panic
    THEN [skipNowOn |-> <<>>, bodyArg |-> <<>>, printed |-> "none"]
    ELSE IF r.reason \in {foundInSkip, notInRunOnly}
    THEN [skipNowOn |-> <<s>>, bodyArg |-> <<>>, printed |-> "none"]
    ELSE IF r.reason = fuzzyMatchSkip
    THEN [skipNowOn |-> <<s>>, bodyArg |-> <<>>,
          printed |-> IF c.Verbose THEN "skipping" ELSE "none"]
    ELSE IF r.reason = doNotSkipFuzzy
    THEN [skipNowOn |-> <<>>, bodyArg |-> <<s>>,
          printed |-> IF c.Verbose THEN "running" ELSE "none"]
    ELSE [skipNowOn |-> <<>>, bodyArg |-> <<s>>, printed |-> "none"]

\* What a call did, read off its effect on the handle and the body
Outcome(e) ==
    IF e.skipNowOn # <<>> /\ e.bodyArg = <<>> THEN "Skip"
    ELSE IF e.skipNowOn = <<>> /\ e.bodyArg # <<>> THEN "Proceed"
    ELSE "Neither"

\* The outcomes Test/Benchmark can have for a tag on the context c
Decisions(c, tag) == {Outcome(runSwitch(c, tag, "t", r)) : r \in shouldSkip(c, tag)}

----------------------------------------------------------------------------
(* State *)

NoLev == [done |-> FALSE, ret |-> 0, panic |-> FALSE]

\* Files on disk.  A file is absent, cannot be opened, does not parse, or
\* holds a config; the working directory is "d/".
jsonName == <<".gotag.json">>
ymlName == <<".gotag.yml">>
Cwd == <<"d", "/">>
ConfigPaths == {Cwd \o jsonName, Cwd \o ymlName}
Absent == [kind |-> "absent"]
Unreadable == [kind |-> "unreadable"]
Malformed == [kind |-> "malformed"]
Holding(file) == [kind |-> "ok", file |-> file]
NoFiles == [p \in ConfigPaths |-> Absent]

\* A goroutine inside a Test / Benchmark call: where it is in run and
\* shouldSkip, and the locals it holds.  ret and e are <<>> until set.
Goroutines == {"g1", "g2"}
Idle == [pc |-> "idle", tag |-> <<>>, coll |-> "none", order |-> <<>>, i |-> 0,
         ret |-> <<>>, e |-> <<>>]
NoProcs == [g \in Goroutines |-> Idle]

\* the command-line program has not been started
NoCLI == [arg |-> <<>>, skips |-> <<>>, pc |-> "none"]
NoCall == [op |-> "none"]

InitRest ==
    /\ last = NoCall
    /\ calls = 0
    /\ skipped = 0
    /\ ran = 0
    /\ panicked = FALSE
    /\ levIn = <<emptyTag, emptyTag>>
    /\ levOut = NoLev
    /\ fs = NoFiles
    /\ cli = NoCLI
    /\ procs = NoProcs

Init ==
    /\ tc = New
    /\ origin = "New"
    /\ distanceSet = FALSE
    /\ InitRest

----------------------------------------------------------------------------
(* Registration: TestContext.Skip / RunOnly and the default-context        *)
(* wrappers Skip, RunOnly, Verbose, Fuzzy, Distance (src/lib.go:272-299)   *)

Skip(tags) ==
    /\ tc' = SkipTags(tc, tags)
    /\ last' = [op |-> "Skip", nargs |-> Len(tags),
                added |-> Cardinality(tc'.skip) - Cardinality(tc.skip)]
    /\ UNCHANGED <<origin, distanceSet, calls, skipped, ran, panicked, levIn, levOut, fs, cli, procs>>

RunOnly(tags) ==
    /\ tc' = RunOnlyTags(tc, tags)
    /\ last' = [op |-> "RunOnly", nargs |-> Len(tags),
                added |-> Cardinality(tc'.runOnly) - Cardinality(tc.runOnly)]
    /\ UNCHANGED <<origin, distanceSet, calls, skipped, ran, panicked, levIn, levOut, fs, cli, procs>>

Verbose(verbose) ==
    /\ tc' = [tc EXCEPT !.Verbose = verbose]
    /\ last' = [op |-> "Verbose"]
    /\ UNCHANGED <<origin, distanceSet, calls, skipped, ran, panicked, levIn, levOut, fs, cli, procs>>

Fuzzy(fuzzy) ==
    /\ tc' = [tc EXCEPT !.Fuzzy = fuzzy]
    /\ last' = [op |-> "Fuzzy"]
    /\ UNCHANGED <<origin, distanceSet, calls, skipped, ran, panicked, levIn, levOut, fs, cli, procs>>

Distance(distance) ==
    /\ tc' = [tc EXCEPT !.EditDistance = distance]
    /\ distanceSet' = TRUE
    /\ last' = [op |-> "Distance"]
    /\ UNCHANGED <<origin, calls, skipped, ran, panicked, levIn, levOut, fs, cli, procs>>

----------------------------------------------------------------------------
(* Test and Benchmark, src/lib.go:180-194 and 301-311 *)

run(op, tag, s) ==
    /\ calls < MaxCalls
    /\ \E r \in shouldSkip(tc, tag) :
          LET e == runSwitch(tc, tag, s, r)
          IN /\ last' = [op |-> op, tag |-> tag, handle |-> s, ret |-> r,
                         skipNowOn |-> e.skipNowOn, bodyArg |-> e.bodyArg,
                         printed |-> e.printed]
             /\ skipped' = skipped + Len(e.skipNowOn)
             /\ ran' = ran + Len(e.bodyArg)
             /\ panicked' = (panicked \/ r.panic)
    /\ calls' = calls + 1
    /\ UNCHANGED <<tc, origin, distanceSet, levIn, levOut, fs, cli, procs>>

\* the handles tests and benchmarks are given: a T, a B
THandles == {"t"}
BHandles == {"b"}

\* the closure handed to run is "testFn(s.(T))": the body gets the handle itself
Test(tag) ==
    \E t \in THandles :
        /\ run("Test", tag, t)
        /\ last'.bodyArg \in {<<>>, <<t>>}

\* likewise "benchmarkFn(s.(B))"
Benchmark(tag) ==
    \E b \in BHandles :
        /\ run("Benchmark", tag, b)
        /\ last'.bodyArg \in {<<>>, <<b>>}

Next ==
    \/ \E tags \in ArgLists : Skip(tags)
    \/ \E tags \in ArgLists : RunOnly(tags)
    \/ \E v \in BOOLEAN : Verbose(v)
    \/ \E f \in BOOLEAN : Fuzzy(f)
    \/ \E d \in DistValues : Distance(d)
    \/ \E tag \in QueryTags : Test(tag)
    \/ \E tag \in QueryTags : Benchmark(tag)

Spec == Init /\ [][Next]_vars

----------------------------------------------------------------------------
(* Registration alone: the setup phase of a context *)

NextReg ==
    \/ \E tags \in ArgLists : Skip(tags)
    \/ \E tags \in ArgLists : RunOnly(tags)
    \/ \E v \in BOOLEAN : Verbose(v)
    \/ \E f \in BOOLEAN : Fuzzy(f)
    \/ \E d \in DistValues : Distance(d)

SpecReg == Init /\ [][NextReg]_vars

----------------------------------------------------------------------------
(* The three ways a context comes to be: New, the default context of init  *)
(* (src/lib.go:436-440) and fromConfig on a decoded file; then the setters *)

ConfigFiles ==
    [skip : ArgLists, run : ArgLists, fuzzy : BOOLEAN,
     distance : {<<>>} \cup {<<d>> : d \in DistValues}]

InitCtor ==
    /\ InitRest
    /\ \/ /\ tc = New
          /\ origin \in {"New", "init"}
          /\ distanceSet = FALSE
       \/ \E file \in ConfigFiles :
             /\ tc = fromConfig(decodeConfig(file))
             /\ origin = "fromConfig"
             /\ distanceSet = (file.distance # <<>>)

NextCtor ==
    \/ \E v \in BOOLEAN : Verbose(v)
    \/ \E f \in BOOLEAN : Fuzzy(f)
    \/ \E d \in DistValues : Distance(d)

SpecCtor == InitCtor /\ [][NextCtor]_vars

----------------------------------------------------------------------------
(* Load and LoadFrom, src/lib.go:110-161, with loadJSONConfig and          *)
(* loadYAMLConfig, src/lib.go:396-419.  A return is [ctx, err, panic]:     *)
(* ctx is <<>> for nil or <<c>>.                                           *)

ErrNoConfig == "Could not locate configuration file"

\* os.Open: a relative path is resolved against the working directory
osOpen(files, path) ==
    LET full == IF Len(path) > 0 /\ path[1] = "d" THEN path ELSE Cwd \o path
    IN IF full \in DOMAIN files /\ files[full].kind \notin {"absent", "unreadable"}
       THEN [f |-> <<files[full]>>, err |-> "nil"]
       ELSE [f |-> <<>>, err |-> "open error"]

loadJSONConfig(f) ==
    IF f.kind = "ok" THEN [config |-> <<decodeConfig(f.file)>>, err |-> "nil"]
    ELSE [config |-> <<>>, err |-> "json error"]

loadYAMLConfig(f) ==
    IF f.kind = "ok" THEN [config |-> <<decodeConfig(f.file)>>, err |-> "nil"]
    ELSE [config |-> <<>>, err |-> "yaml error"]

\* the body Load and LoadFrom share: try the JSON file, then the YAML file
loadEither(files, jsonPath, ymlPath) ==
    LET j == osOpen(files, jsonPath)
        y == osOpen(files, ymlPath)
    IN IF j.err = "nil"
       THEN LET c == loadJSONConfig(j.f[1])
            IN IF c.err # "nil" THEN [ctx |-> <<>>, err |-> c.err, panic |-> FALSE]
               ELSE [ctx |-> <<fromConfig(c.config[1])>>, err |-> "nil", panic |-> FALSE]
       ELSE IF y.err = "nil"
       THEN LET c == loadYAMLConfig(y.f[1])
            IN IF c.err # "nil" THEN [ctx |-> <<>>, err |-> c.err, panic |-> FALSE]
               ELSE [ctx |-> <<fromConfig(c.config[1])>>, err |-> "nil", panic |-> FALSE]
       ELSE [ctx |-> <<>>, err |-> ErrNoConfig, panic |-> FALSE]

LoadRet(files) == loadEither(files, jsonName, ymlName)

LoadFromRet(files, dir) ==
    IF ~InRange(dir, Len(dir) - 1)
    THEN [ctx |-> <<>>, err |-> "nil", panic |-> TRUE]
    ELSE LET d == IF dir[Len(dir)] # "/" THEN dir \o <<"/">> ELSE dir
         IN loadEither(files, d \o jsonName, d \o ymlName)

Dirs == {<<>>, <<"d">>, <<"d", "/">>, <<"x">>}

FileStates ==
    {Absent, Unreadable, Malformed}
        \cup {Holding(file) :
                file \in {g \in ConfigFiles :
                             Len(g.skip) <= MaxFileTags /\ Len(g.run) <= MaxFileTags}}

InitLoad ==
    /\ tc = New
    /\ origin = "init"
    /\ distanceSet = FALSE
    /\ last = NoCall
    /\ calls = 0
    /\ skipped = 0
    /\ ran = 0
    /\ panicked = FALSE
    /\ levIn = <<emptyTag, emptyTag>>
    /\ levOut = NoLev
    /\ fs \in [ConfigPaths -> FileStates]
    /\ cli = NoCLI
    /\ procs = NoProcs

Load ==
    /\ LET r == LoadRet(fs)
       IN /\ last' = [op |-> "Load", dir |-> Cwd, ret |-> r]
          /\ panicked' = (panicked \/ r.panic)
    /\ UNCHANGED <<tc, origin, distanceSet, calls, skipped, ran, levIn, levOut, fs, cli, procs>>

LoadFrom(dir) ==
    /\ LET r == LoadFromRet(fs, dir)
       IN /\ last' = [op |-> "LoadFrom", dir |-> dir, ret |-> r]
          /\ panicked' = (panicked \/ r.panic)
    /\ UNCHANGED <<tc, origin, distanceSet, calls, skipped, ran, levIn, levOut, fs, cli, procs>>

NextLoad ==
    \/ Load
    \/ \E dir \in Dirs : LoadFrom(dir)

SpecLoad == InitLoad /\ [][NextLoad]_vars

----------------------------------------------------------------------------
(* The command-line program, src/cmd/gotag/main.go.  init registers the    *)
(* flag -skip with the variable skips and the default "" (line 15); main   *)
(* never calls flag.Parse, so skips is never given the command line's      *)
(* value.                                                                  *)

\* strings.Split(s, sep) for a one-character sep: the pieces between the
\* separators, n separators giving n + 1 pieces
RECURSIVE SplitFrom(_, _, _, _)
SplitFrom(s, sep, i, piece) ==
    IF i > Len(s) THEN <<piece>>
    ELSE IF s[i] = sep THEN <<piece>> \o SplitFrom(s, sep, i + 1, <<>>)
    ELSE SplitFrom(s, sep, i + 1, Append(piece, s[i]))

Split(s, sep) == SplitFrom(s, sep, 1, <<>>)

\* strings.TrimSpace: drop the white space at both ends
isSpace(ch) == ch \in {" ", "\t", "\n", "\r"}

RECURSIVE TrimLeft(_)
TrimLeft(s) == IF s # <<>> /\ isSpace(Head(s)) THEN TrimLeft(Tail(s)) ELSE s

RECURSIVE TrimRight(_)
TrimRight(s) ==
    IF s # <<>> /\ isSpace(s[Len(s)]) THEN TrimRight(SubSeq(s, 1, Len(s) - 1)) ELSE s

TrimSpace(s) == TrimRight(TrimLeft(s))

\* main's loop: gotag.Skip(strings.TrimSpace(v)) for each piece, from piece i
RECURSIVE mainFrom(_, _, _)
mainFrom(c, pieces, i) ==
    IF i > Len(pieces) THEN c
    ELSE mainFrom(SkipTags(c, <<TrimSpace(pieces[i])>>), pieces, i + 1)

FlagChars == {"a", ",", " "}
FlagValues == SeqsUpTo(FlagChars, MaxFlagLen)

InitCLI ==
    /\ tc = New
    /\ origin = "init"
    /\ distanceSet = FALSE
    /\ last = NoCall
    /\ calls = 0
    /\ skipped = 0
    /\ ran = 0
    /\ panicked = FALSE
    /\ levIn = <<emptyTag, emptyTag>>
    /\ levOut = NoLev
    /\ fs = NoFiles
    /\ cli \in {[arg |-> a, skips |-> <<>>, pc |-> "main"] : a \in FlagValues}
    /\ procs = NoProcs

\* main: the registrations, then "go test" is run and its error printed
main ==
    /\ cli.pc = "main"
    /\ tc' = mainFrom(tc, Split(cli.skips, ","), 1)
    /\ \E err \in {"nil", "exit status 1"} :
          last' = [op |-> "main", err |-> err,
                   printed |-> IF err # "nil" THEN <<err>> ELSE <<>>]
    /\ cli' = [cli EXCEPT !.pc = "done"]
    /\ UNCHANGED <<origin, distanceSet, calls, skipped, ran, panicked, levIn, levOut, fs, procs>>

NextCLI == main

SpecCLI == InitCLI /\ [][NextCLI]_vars

----------------------------------------------------------------------------
(* Test and Benchmark called from several goroutines on the one context,   *)
(* src/lib.go:206-270, a statement at a time: every read of tc is a step   *)
(* of its own, and any other goroutine may step in between.  The code      *)
(* takes no lock.  p is the goroutine's record, c the context it reads.    *)

Returned(p, r) == [p EXCEPT !.pc = "switch", !.ret = <<r>>]

\* lib.go:231 "if len(tc.runOnly) > 0": which map this call will consult
atLen(c, p) ==
    {[p EXCEPT !.pc = "lookup",
               !.coll = IF Cardinality(c.runOnly) > 0 THEN "runOnly" ELSE "skip"]}

\* lib.go:232-235 and 247-250: the exact lookup
atLookup(c, p) ==
    IF p.coll = "runOnly"
    THEN {IF p.tag \in c.runOnly THEN Returned(p, Ret(<<>>, doNotSkip))
          ELSE [p EXCEPT !.pc = "fuzzy"]}
    ELSE {IF p.tag \in c.skip THEN Returned(p, Ret(<<>>, foundInSkip))
          ELSE [p EXCEPT !.pc = "fuzzy"]}

\* the Fuzzy test that takes Fuzzy to be off
atFuzzyOff(c, p) ==
    {Returned(p, Ret(<<>>, IF p.coll = "runOnly" THEN notInRunOnly ELSE doNotSkip))}

\* lib.go:236-240 and 251-255: "if !tc.Fuzzy", else checkFuzzy starts to range
\* over the map, in one of its orders
atFuzzy(c, p) ==
    IF ~c.Fuzzy
    THEN {Returned(p, Ret(<<>>, IF p.coll = "runOnly" THEN notInRunOnly ELSE doNotSkip))}
    ELSE {[p EXCEPT !.pc = "range", !.order = o, !.i = 0] :
             o \in Orders(IF p.coll = "runOnly" THEN c.runOnly ELSE c.skip)}

\* lib.go:263-269: one iteration of checkFuzzy's loop, reading tc.EditDistance
atRange(c, p) ==
    IF ~(p.i < Len(p.order))
    THEN {Returned(p, Ret(<<>>, IF p.coll = "runOnly" THEN notInRunOnly ELSE doNotSkip))}
    ELSE LET k == p.order[p.i + 1]
             d == LevMemo[k, p.tag]
         IN IF d.panic THEN {Returned(p, Unwound)}
            ELSE IF d.ret > c.EditDistance THEN {[p EXCEPT !.i = p.i + 1]}
            ELSE {Returned(p, Ret(k, IF p.coll = "runOnly" THEN doNotSkipFuzzy
                                     ELSE fuzzyMatchSkip))}

\* lib.go:208-227: run's switch, reading tc.Verbose and tc.EditDistance
atSwitch(c, p, s) ==
    {[p EXCEPT !.pc = "done", !.e = <<runSwitch(c, p.tag, s, p.ret[1])>>]}

\* g1 runs tests, g2 benchmarks
handleOf(g) == IF g = "g1" THEN "t" ELSE "b"

ConcTags == {tagA, ta, zzzzz}

\* "go gotag.Test(tag, t, fn)": the call begins
Go(g, tag) ==
    /\ procs[g].pc = "idle"
    /\ procs' = [procs EXCEPT ![g] = [Idle EXCEPT !.pc = "len", !.tag = tag]]
    /\ last' = [op |-> "go"]
    /\ UNCHANGED <<tc, origin, distanceSet, calls, skipped, ran, panicked, levIn, levOut, fs, cli>>

\* the goroutine's next statement
Step(g) ==
    /\ procs[g].pc \notin {"idle", "done"}
    /\ \E q \in (CASE procs[g].pc = "len" -> atLen(tc, procs[g])
                   [] procs[g].pc = "lookup" -> atLookup(tc, procs[g])
                   [] procs[g].pc = "fuzzy" -> atFuzzy(tc, procs[g])
                   [] procs[g].pc = "range" -> atRange(tc, procs[g])
                   [] procs[g].pc = "switch" -> atSwitch(tc, procs[g], handleOf(g))) :
          /\ procs' = [procs EXCEPT ![g] = q]
          /\ calls' = IF q.pc = "done" THEN calls + 1 ELSE calls
          /\ skipped' = IF q.pc = "done" THEN skipped + Len(q.e[1].skipNowOn) ELSE skipped
          /\ ran' = IF q.pc = "done" THEN ran + Len(q.e[1].bodyArg) ELSE ran
          /\ panicked' = (panicked \/ (q.ret # <<>> /\ q.ret[1].panic))
    /\ last' = [op |-> "go"]
    /\ UNCHANGED <<tc, origin, distanceSet, levIn, levOut, fs, cli>>

\* no Test / Benchmark call has started yet
Quiescent == \A g \in Goroutines : procs[g].pc = "idle"

\* the registrations all come first, then the goroutines run as they like
NextConc ==
    \/ Quiescent /\ \E tags \in ArgLists : Skip(tags)
    \/ Quiescent /\ \E tags \in ArgLists : RunOnly(tags)
    \/ Quiescent /\ \E fuzzy \in BOOLEAN : Fuzzy(fuzzy)
    \/ Quiescent /\ \E distance \in DistValues : Distance(distance)
    \/ \E g \in Goroutines, tag \in ConcTags : Go(g, tag)
    \/ \E g \in Goroutines : Step(g)

SpecConc == Init /\ [][NextConc]_vars

----------------------------------------------------------------------------
(* The earlier TestContext, src/unnamed/part_001:1-139.  New, Skip,        *)
(* RunOnly, run and checkFuzzy read as in src/lib.go; shouldSkip differs:  *)
(* it consults both maps, and with Fuzzy off it never answers              *)
(* notInRunOnly.                                                           *)

earlierShouldSkip(c, tag) ==
    LET hasRunOnly == Cardinality(c.runOnly) > 0
        inSkip == tag \in c.skip
        inRun == tag \in c.runOnly
    IN IF ~c.Fuzzy
       THEN IF inSkip /\ ~inRun THEN {Ret(<<>>, foundInSkip)} ELSE {Ret(<<>>, doNotSkip)}
       ELSE {IF fs1.panic \/ fr.panic THEN Unwound
             ELSE IF inSkip /\ ~(inRun \/ fr.found) THEN Ret(<<>>, foundInSkip)
             ELSE IF fs1.found /\ ~(inRun \/ fr.found) THEN Ret(fs1.match, fuzzyMatchSkip)
             ELSE IF hasRunOnly /\ ~inRun
             THEN IF fr.found THEN Ret(fr.match, doNotSkipFuzzy)
                  ELSE Ret(<<>>, notInRunOnly)
             ELSE Ret(<<>>, doNotSkip) :
                fs1 \in checkFuzzy(c, tag, c.skip), fr \in checkFuzzy(c, tag, c.runOnly)}

earlierDecisions(c, tag) ==
    {Outcome(runSwitch(c, tag, "t", r)) : r \in earlierShouldSkip(c, tag)}

earlierRun(op, tag, s) ==
    /\ calls < MaxCalls
    /\ \E r \in earlierShouldSkip(tc, tag) :
          LET e == runSwitch(tc, tag, s, r)
          IN /\ last' = [op |-> op, tag |-> tag, handle |-> s, ret |-> r,
                         skipNowOn |-> e.skipNowOn, bodyArg |-> e.bodyArg,
                         printed |-> e.printed]
             /\ skipped' = skipped + Len(e.skipNowOn)
             /\ ran' = ran + Len(e.bodyArg)
             /\ panicked' = (panicked \/ r.panic)
    /\ calls' = calls + 1
    /\ UNCHANGED <<tc, origin, distanceSet, levIn, levOut, fs, cli, procs>>

\* "testFn(s.(*testing.T))"
earlierTest(tag) ==
    \E t \in THandles :
        /\ earlierRun("Test", tag, t)
        /\ last'.bodyArg \in {<<>>, <<t>>}

\* "benchmarkFn(s.(*testing.B))"
earlierBenchmark(tag) ==
    \E b \in BHandles :
        /\ earlierRun("Benchmark", tag, b)
        /\ last'.bodyArg \in {<<>>, <<b>>}

\* the fields Verbose, Fuzzy and EditDistance are exported: assigned directly
NextEarlier ==
    \/ \E tags \in ArgLists : Skip(tags)
    \/ \E tags \in ArgLists : RunOnly(tags)
    \/ \E verbose \in BOOLEAN : Verbose(verbose)
    \/ \E fuzzy \in BOOLEAN : Fuzzy(fuzzy)
    \/ \E distance \in DistValues : Distance(distance)
    \/ \E tag \in QueryTags : earlierTest(tag)
    \/ \E tag \in QueryTags : earlierBenchmark(tag)

SpecEarlier == Init /\ [][NextEarlier]_vars

----------------------------------------------------------------------------
(* levenshtein called on its own *)

LevInputs ==
    (LevStrings \X LevStrings)
        \cup {<<emptyTag, abc>>, <<abc, emptyTag>>, <<kitten, sitting>>,
              <<kitten, kitten>>, <<tagA, taga>>, <<taga, tagB>>, <<zzzzz, tagA>>,
              <<tagA, ta>>}

InitLev ==
    /\ tc = New
    /\ origin = "New"
    /\ distanceSet = FALSE
    /\ last = NoCall
    /\ calls = 0
    /\ skipped = 0
    /\ ran = 0
    /\ panicked = FALSE
    /\ levIn \in LevInputs
    /\ levOut = NoLev
    /\ fs = NoFiles
    /\ cli = NoCLI
    /\ procs = NoProcs

LevCall ==
    /\ ~levOut.done
    /\ LET d == levenshtein(levIn[1], levIn[2])
       IN levOut' = [done |-> TRUE, ret |-> d.ret, panic |-> d.panic]
    /\ UNCHANGED <<tc, origin, distanceSet, last, calls, skipped, ran, panicked, levIn, fs, cli, procs>>

NextLev == LevCall

SpecLev == InitLev /\ [][NextLev]_vars

----------------------------------------------------------------------------
(* The edit distance by its definition: the least number of single-        *)
(* character insertions, deletions and substitutions turning s into t.     *)
(* A shortest edit script never needs a string longer than the longer of   *)
(* s and t, so the strings of LevStrings suffice between two of them.      *)

Insertions(s) ==
    {SubSeq(s, 1, i) \o <<ch>> \o SubSeq(s, i + 1, Len(s)) :
        i \in 0..Len(s), ch \in Alphabet}

Deletions(s) ==
    {SubSeq(s, 1, i - 1) \o SubSeq(s, i + 1, Len(s)) : i \in 1..Len(s)}

Substitutions(s) == {[s EXCEPT ![i] = ch] : i \in 1..Len(s), ch \in Alphabet}

OneEdit(s) ==
    {u \in Insertions(s) \cup Deletions(s) \cup Substitutions(s) : Len(u) <= MaxLen}

RECURSIVE Within(_, _)
Within(s, n) ==
    IF n = 0 THEN {s}
    ELSE LET b == Within(s, n - 1) IN b \cup UNION {OneEdit(u) : u \in b}

Ball == [s \in LevStrings |-> [n \in 0..MaxLen |-> Within(s, n)]]

TrueDistance(s, t) ==
    CHOOSE n \in 0..MaxLen :
        /\ t \in Ball[s][n]
        /\ \A m \in 0..(n - 1) : t \notin Ball[s][m]

IsQuery == last.op \in {"Test", "Benchmark"}

----------------------------------------------------------------------------
(* Properties *)

\* C1: with a non-empty run-only-set the outcome of Test/Benchmark for a tag
\* does not depend on the skip-set: replacing the skip-set by any other one,
\* run-only-set, Fuzzy and EditDistance kept, leaves every tag's outcome as it
\* is, with Fuzzy on or off.
RunOnlyOverridesSkip ==
    Cardinality(tc.runOnly) > 0 =>
        \A sk \in SUBSET RegTags : \A tag \in QueryTags :
            Decisions([tc EXCEPT !.skip = sk], tag) = Decisions(tc, tag)

\* skip-set {tagA}, run-only-set {tagA}, Fuzzy on: Test("tagA") ran the body
RunOnlyOverridesSkipSeen ==
    /\ tc.skip = {tagA}
    /\ tc.runOnly = {tagA}
    /\ tc.Fuzzy
    /\ last.op = "Test"
    /\ last.tag = tagA
    /\ last.bodyArg = <<"t">>
    /\ last.skipNowOn = <<>>

\* C2: with a non-empty run-only-set and Fuzzy off, a tag's body runs exactly
\* when the tag is a member of the run-only-set, and every other tag is
\* skipped.
RunOnlyExclusive ==
    (Cardinality(tc.runOnly) > 0 /\ ~tc.Fuzzy) =>
        \A tag \in QueryTags :
            Decisions(tc, tag) = IF tag \in tc.runOnly THEN {"Proceed"} ELSE {"Skip"}

\* run-only-set {tagA}, Fuzzy off: Test("taga") called SkipNow
RunOnlyExclusiveSeen ==
    /\ tc.runOnly = {tagA}
    /\ ~tc.Fuzzy
    /\ last.op = "Test"
    /\ last.tag = taga
    /\ last.ret.reason = notInRunOnly
    /\ last.skipNowOn = <<"t">>

\* C3 as stated: with Fuzzy off, in every state that registration calls reach,
\* a tag registered via Skip is skipped and a tag registered nowhere proceeds.
SkipRegisteredAnyState ==
    ~tc.Fuzzy =>
        \A tag \in QueryTags :
            /\ tag \in tc.skip => Decisions(tc, tag) = {"Skip"}
            /\ tag \notin (tc.skip \cup tc.runOnly) => Decisions(tc, tag) = {"Proceed"}

\* C3 amended: with Fuzzy off and an empty run-only-set, a tag is skipped
\* exactly when it was registered via Skip, and every other tag proceeds.
SkipRegistered ==
    (~tc.Fuzzy /\ Cardinality(tc.runOnly) = 0) =>
        \A tag \in QueryTags :
            Decisions(tc, tag) = IF tag \in tc.skip THEN {"Skip"} ELSE {"Proceed"}

\* skip-set {tagA, ""}, nothing else, Fuzzy off: Test("taga") ran the body
SkipRegisteredSeen ==
    /\ tc.skip = {tagA, emptyTag}
    /\ tc.runOnly = {}
    /\ ~tc.Fuzzy
    /\ last.op = "Test"
    /\ last.tag = taga
    /\ last.bodyArg = <<"t">>

\* C4: with an empty run-only-set and Fuzzy on, a tag is skipped exactly when
\* it is in the skip-set or some skip-set entry is within EditDistance of it
\* (a distance equal to the threshold matches); otherwise it proceeds.
FuzzySkip ==
    (Cardinality(tc.runOnly) = 0 /\ tc.Fuzzy) =>
        \A tag \in QueryTags :
            Decisions(tc, tag) =
                IF \/ tag \in tc.skip
                   \/ \E k \in tc.skip : LevMemo[k, tag].ret <= tc.EditDistance
                THEN {"Skip"} ELSE {"Proceed"}

\* skip-set {tagA}, threshold 2, Fuzzy on: Test("ta"), at distance exactly 2,
\* was skipped on the fuzzy match tagA
FuzzySkipSeen ==
    /\ tc.skip = {tagA}
    /\ tc.runOnly = {}
    /\ tc.Fuzzy
    /\ tc.EditDistance = 2
    /\ last.op = "Test"
    /\ last.tag = ta
    /\ last.ret = Ret(tagA, fuzzyMatchSkip)
    /\ last.skipNowOn = <<"t">>

\* C5: with a non-empty run-only-set and Fuzzy on, a tag proceeds exactly when
\* it is in the run-only-set or some run-only entry is within EditDistance of
\* it; otherwise it is skipped.
RunOnlyFuzzy ==
    (Cardinality(tc.runOnly) > 0 /\ tc.Fuzzy) =>
        \A tag \in QueryTags :
            Decisions(tc, tag) =
                IF \/ tag \in tc.runOnly
                   \/ \E k \in tc.runOnly : LevMemo[k, tag].ret <= tc.EditDistance
                THEN {"Proceed"} ELSE {"Skip"}

\* run-only-set {tagA} and the empty tag, threshold 2, Fuzzy on: Test("taga")
\* ran the body on the fuzzy match tagA
RunOnlyFuzzySeen ==
    /\ tc.runOnly = {tagA, emptyTag}
    /\ tc.Fuzzy
    /\ tc.EditDistance = 2
    /\ last.op = "Test"
    /\ last.tag = taga
    /\ last.ret = Ret(tagA, doNotSkipFuzzy)
    /\ last.bodyArg = <<"t">>

\* C6: levenshtein(s1, s2) is the edit distance of s1 and s2 for all strings
\* over Alphabet up to MaxLen characters; it is 0 on equal strings, 3 on
\* ("", "abc") and 3 on ("kitten", "sitting").
LevenshteinCorrect ==
    levOut.done =>
        /\ ~levOut.panic
        /\ (levIn[1] \in LevStrings /\ levIn[2] \in LevStrings)
               => levOut.ret = TrueDistance(levIn[1], levIn[2])
        /\ levIn[1] = levIn[2] => levOut.ret = 0
        /\ levIn = <<emptyTag, abc>> => levOut.ret = 3
        /\ levIn = <<kitten, sitting>> => levOut.ret = 3

\* levenshtein("kitten", "sitting") returned 3
LevenshteinCorrectSeen ==
    /\ levOut.done
    /\ levIn = <<kitten, sitting>>
    /\ levOut.ret = 3

\* C7: every call of Test/Benchmark does exactly one of two things, once:
\* on a skip reason it calls SkipNow on its handle and not the body, otherwise
\* it calls the body with that handle and not SkipNow; so the SkipNow calls and
\* the body runs add up to the number of calls.
WrapperExactlyOne ==
    /\ skipped + ran = calls
    /\ IsQuery =>
          IF last.ret.reason \in {foundInSkip, fuzzyMatchSkip, notInRunOnly}
          THEN last.skipNowOn = <<last.handle>> /\ last.bodyArg = <<>>
          ELSE last.bodyArg = <<last.handle>> /\ last.skipNowOn = <<>>

\* after two calls, one was skipped and one ran, the latest a skipped Benchmark
WrapperExactlyOneSeen ==
    /\ calls = 2
    /\ skipped = 1
    /\ ran = 1
    /\ last.op = "Benchmark"
    /\ last.skipNowOn = <<"b">>

\* C8: registering again what was registered changes nothing: Skip(tags)
\* after Skip(tags), and RunOnly(tags) after RunOnly(tags), leave the context,
\* and so every tag's outcome, as the first call left it; and a list registers
\* exactly the set of its elements, duplicates or not.
RegistrationIdempotent ==
    \A tags \in ArgLists :
        LET once == SkipTags(tc, tags)
            ronce == RunOnlyTags(tc, tags)
            elems == {tags[i] : i \in 1..Len(tags)}
        IN /\ SkipTags(once, tags) = once
           /\ RunOnlyTags(ronce, tags) = ronce
           /\ once = [tc EXCEPT !.skip = tc.skip \cup elems]
           /\ ronce = [tc EXCEPT !.runOnly = tc.runOnly \cup elems]
           /\ \A tag \in QueryTags :
                 /\ shouldSkip(SkipTags(once, tags), tag) = shouldSkip(once, tag)
                 /\ shouldSkip(RunOnlyTags(ronce, tags), tag) = shouldSkip(ronce, tag)

\* Skip was called with two tags that were both registered already
RegistrationIdempotentSeen ==
    /\ last.op = "Skip"
    /\ last.nargs = 2
    /\ last.added = 0
    /\ tc.skip = {tagA}

\* C9: no call panics and every query yields a decision: for every tag, the
\* empty one included, with any threshold, negative ones included, and any
\* tag sets, empty ones included, shouldSkip returns a reason and the call
\* either skips or runs the body.
Total ==
    /\ ~panicked
    /\ \A tag \in QueryTags :
          /\ shouldSkip(tc, tag) # {}
          /\ \A r \in shouldSkip(tc, tag) : ~r.panic /\ r.reason \in skipReason
          /\ Decisions(tc, tag) \subseteq {"Skip", "Proceed"}
    /\ IsQuery => Outcome(last) \in {"Skip", "Proceed"}

\* Test("") with Fuzzy on, a negative threshold and skip-set {tagA} ran the
\* body, and nothing has panicked
TotalSeen ==
    /\ tc.Fuzzy
    /\ tc.EditDistance < 0
    /\ tc.skip = {tagA}
    /\ tc.runOnly = {}
    /\ last.op = "Test"
    /\ last.tag = emptyTag
    /\ last.bodyArg = <<"t">>
    /\ ~panicked

\* C10: a context whose threshold was never given explicitly has
\* EditDistance 2, whether it comes from New, is the default context, or was
\* built by fromConfig from a file that gives no distance.
DefaultDistanceIsTwo == ~distanceSet => tc.EditDistance = 2

\* The files the directory named by dir holds; "" names no directory here,
\* "x" an empty one.
ExistsIn(dir, name) ==
    /\ dir \in {<<"d">>, <<"d", "/">>}
    /\ fs[Cwd \o name].kind # "absent"

\* C11: LoadFrom(dir) and Load return either a context or an error; the error
\* is ErrNoConfig exactly when neither .gotag.json nor .gotag.yml exists in
\* the directory; and when a file exists the return is the context built from
\* it, field for field, or the parse error of its format.
LoadOutcome ==
    last.op \in {"Load", "LoadFrom"} =>
        LET r == last.ret
            hasJSON == ExistsIn(last.dir, jsonName)
            hasYAML == ExistsIn(last.dir, ymlName)
            used == IF hasJSON THEN fs[Cwd \o jsonName] ELSE fs[Cwd \o ymlName]
        IN /\ ~r.panic
           /\ (r.ctx # <<>>) # (r.err # "nil")
           /\ (r.err = ErrNoConfig) <=> (~hasJSON /\ ~hasYAML)
           /\ (hasJSON \/ hasYAML) =>
                 \/ /\ used.kind = "ok"
                    /\ r.err = "nil"
                    /\ r.ctx[1].skip = {used.file.skip[i] : i \in 1..Len(used.file.skip)}
                    /\ r.ctx[1].runOnly = {used.file.run[i] : i \in 1..Len(used.file.run)}
                    /\ r.ctx[1].Fuzzy = used.file.fuzzy
                    /\ used.file.distance # <<>> =>
                           r.ctx[1].EditDistance = used.file.distance[1]
                 \/ /\ used.kind # "ok"
                    /\ r.ctx = <<>>
                    /\ r.err = IF hasJSON THEN "json error" ELSE "yaml error"

\* C12: once the command-line program has run the test command, the default
\* policy's skip-set is exactly the set of the white-space-trimmed elements of
\* the comma-separated value given to -skip, and nothing else is registered.
CLISkipSet ==
    cli.pc = "done" =>
        LET given == Split(cli.arg, ",")
        IN /\ tc.skip = {TrimSpace(given[i]) : i \in 1..Len(given)}
           /\ tc.runOnly = {}

\* C13: a Test or Benchmark call (and the shouldSkip inside it) leaves the
\* skip-set, the run-only-set, Fuzzy, EditDistance and Verbose as they were,
\* so looking up an unregistered tag does not insert it; Skip changes only the
\* skip-set and RunOnly only the run-only-set; and no step removes a tag from
\* either set.
FrameNoDeletion ==
    [][/\ last'.op \in {"Test", "Benchmark"} => tc' = tc
       /\ last'.op = "Skip" => tc' = [tc EXCEPT !.skip = tc'.skip]
       /\ last'.op = "RunOnly" => tc' = [tc EXCEPT !.runOnly = tc'.runOnly]
       /\ tc.skip \subseteq tc'.skip
       /\ tc.runOnly \subseteq tc'.runOnly]_vars

\* an unregistered tag has been looked up, fuzzily, in a policy holding tags
\* in both sets, and is still unregistered
FrameNoDeletionSeen ==
    /\ last.op \in {"Test", "Benchmark"}
    /\ tc.Fuzzy
    /\ tc.skip # {}
    /\ tc.runOnly # {}
    /\ last.tag \notin tc.skip \cup tc.runOnly

\* C14: whenever shouldSkip returns fuzzyMatchSkip the reported tag is an
\* entry of the skip-set within EditDistance of the queried tag, whenever it
\* returns doNotSkipFuzzy the reported tag is such an entry of the run-only-set;
\* and every iteration order of the searched set gives the same skip/proceed
\* decision (only the reported tag may differ).
FuzzyWitness ==
    \A tag \in QueryTags :
        /\ \A r \in shouldSkip(tc, tag) :
              /\ r.reason = fuzzyMatchSkip =>
                    /\ r.match \in tc.skip
                    /\ LevMemo[r.match, tag].ret <= tc.EditDistance
              /\ r.reason = doNotSkipFuzzy =>
                    /\ r.match \in tc.runOnly
                    /\ LevMemo[r.match, tag].ret <= tc.EditDistance
        /\ Cardinality(Decisions(tc, tag)) = 1

\* skip-set {tagA, ""}, threshold 2: "ta" is at distance 2 from both entries,
\* shouldSkip has two returns for it and Test("ta") was skipped reporting ""
FuzzyWitnessSeen ==
    /\ tc.skip = {tagA, emptyTag}
    /\ tc.runOnly = {}
    /\ tc.Fuzzy
    /\ tc.EditDistance = 2
    /\ last.op = "Test"
    /\ last.tag = ta
    /\ last.ret = Ret(emptyTag, fuzzyMatchSkip)
    /\ Ret(tagA, fuzzyMatchSkip) \in shouldSkip(tc, ta)
    /\ last.skipNowOn = <<"t">>

\* C15: when every registration call is over before the first Test /
\* Benchmark call starts, then under every interleaving of the concurrent
\* calls each finished call has a return and a decision it can have when run
\* alone on the context, and no step changes the context once a call has
\* started.
SingleWriterManyReader ==
    /\ [](\A g \in Goroutines :
             procs[g].pc = "done" =>
                /\ procs[g].ret[1] \in shouldSkip(tc, procs[g].tag)
                /\ Outcome(procs[g].e[1]) \in Decisions(tc, procs[g].tag))
    /\ [][(~Quiescent \/ ~Quiescent') => tc' = tc]_vars

\* both goroutines have finished a call for "ta" on the skip-set {tagA, ""}
\* with threshold 2, having ranged over the map in different orders
SingleWriterManyReaderSeen ==
    /\ tc.skip = {tagA, emptyTag}
    /\ tc.runOnly = {}
    /\ tc.Fuzzy
    /\ tc.EditDistance = 2
    /\ procs["g1"].pc = "done"
    /\ procs["g2"].pc = "done"
    /\ procs["g1"].tag = ta
    /\ procs["g2"].tag = ta
    /\ procs["g1"].ret[1].match = tagA
    /\ procs["g2"].ret[1].match = emptyTag
    /\ skipped = 2

\* C16: in the earlier TestContext, once the run-only-set is non-empty only
\* the given tests run: a tag's body runs exactly when the tag is in the
\* run-only-set or, with Fuzzy on, within EditDistance of one of its entries,
\* whatever the skip-set holds; every other tag is skipped.
EarlierRunOnlyExclusive ==
    Cardinality(tc.runOnly) > 0 =>
        \A tag \in QueryTags :
            earlierDecisions(tc, tag) =
                IF \/ tag \in tc.runOnly
                   \/ /\ tc.Fuzzy
                      /\ \E k \in tc.runOnly : LevMemo[k, tag].ret <= tc.EditDistance
                THEN {"Proceed"} ELSE {"Skip"}

\* C17: once the run-only-set is non-empty it is non-empty after every
\* further step, and a Skip call made from then on leaves the decision for
\* every tag as it was: nothing puts the context back into skip-set mode.
RunOnlyLatch ==
    [][Cardinality(tc.runOnly) > 0 =>
          /\ Cardinality(tc'.runOnly) > 0
          /\ last'.op = "Skip" =>
                \A tag \in QueryTags : Decisions(tc', tag) = Decisions(tc, tag)]_vars

\* in run-only mode with Fuzzy on, a Skip call has just added tagA to the
\* skip-set, which would have skipped taga and "ta" in skip-set mode
RunOnlyLatchSeen ==
    /\ last.op = "Skip"
    /\ last.added > 0
    /\ tc.skip = {tagA}
    /\ tc.runOnly = {emptyTag}
    /\ tc.Fuzzy
    /\ tc.EditDistance = 2
    /\ Decisions(tc, tagA) = {"Skip"}
    /\ Decisions(tc, ta) = {"Proceed"}

\* C18: when EditDistance is zero or negative, every tag gets the same
\* skip/proceed decision with Fuzzy on as with Fuzzy off: fuzzy matching then
\* matches nothing beyond the tags registered exactly.
DegenerateThreshold ==
    tc.EditDistance <= 0 =>
        \A tag \in QueryTags :
            Decisions([tc EXCEPT !.Fuzzy = TRUE], tag)
                = Decisions([tc EXCEPT !.Fuzzy = FALSE], tag)

\* threshold 0, Fuzzy on, skip-set {tagA}: Test("taga"), one edit away, ran its
\* body after checkFuzzy had compared it with tagA
DegenerateThresholdSeen ==
    /\ tc.EditDistance = 0
    /\ tc.Fuzzy
    /\ tc.skip = {tagA}
    /\ tc.runOnly = {}
    /\ last.op = "Test"
    /\ last.tag = taga
    /\ LevMemo[tagA, taga].ret = 1
    /\ last.ret = Ret(<<>>, doNotSkip)
    /\ last.bodyArg = <<"t">>

====
